---- MODULE Spec2Model ----
(***************************************************************************)
(* Model of the call-audio enrichment pipeline of AI_Teleprompter:         *)
(*   services/rich_processing_speechbrain.py  (class SpeechProcessor)      *)
(*   services/rich_processing.py              (function-based twin)        *)
(*                                                                         *)
(* The state machines share the module's variables:                        *)
(*   SpecFusion - one file's transcribe -> diarise -> assign_speaker_labels*)
(*   Spec       - the batch runs over data/wav that write                  *)
(*                data/enriched_transcripts.json: process_all_files of the *)
(*                class (load, loop, write) and main of the function-based *)
(*                twin (loop, write)                                       *)
(*   SpecClean  - clean_transcript of either module, applied to a text and *)
(*                to its own result                                        *)
(*   SpecEntities - extract_entities of either module                      *)
(*   SpecRecord - one call of process_wav_file, from the engines' output   *)
(*                to the record                                            *)
(*   SpecTest   - tests/test_sample.py: process_wav_file on the first      *)
(*                files of data/wav, the results saved and read back       *)
(*   SpecIncremental - the main block of services/data_processing.py,      *)
(*                which saves data/transcripts.json after every file       *)
(* Times are whole numbers of time units; the code compares and subtracts  *)
(* them and nothing else.                                                  *)
(***************************************************************************)
EXTENDS Integers, Sequences, FiniteSets, TLC

VARIABLES
    \* ---- one file's pipeline (SpecFusion) ----
    fpc,                    \* position in process_wav_file
    diarization_model,      \* self.diarization_model: "None" or "loaded"
    transcript_input,       \* what transcribe_wav returned, before fusion touched it
    transcription_segments, \* the list object handed to assign_speaker_labels
    diarisation_segments,   \* the list diarise_audio returned
    enriched_segments,      \* the list assign_speaker_labels returned
    \* ---- the batch run (Spec) ----
    entry,                  \* which batch run is running: process_all_files or main
    pc,                     \* position in the batch run
    directory,              \* wav_dir.glob("*.wav"), in enumeration order
    failing,                \* files whose process_wav_file raises
    artifact,               \* content of output_path on disk, or NoFile
    existing_data,          \* process_all_files local
    processed_files,        \* process_all_files local
    new_entries,            \* process_all_files local; output_data of main
    combined_data,          \* process_all_files local
    idx,                    \* position of the for loop in directory
    attempted,              \* files process_wav_file was invoked on, this run
    log,                    \* what this run logged
    runs,                   \* runs started so far
    startArtifact,          \* artifact when the current run started
    prevOutcome,            \* how the run before the current one ended
    prevUnfinished,         \* files the run before failed on or was interrupted in
    \* ---- the transcript cleaner (SpecClean) ----
    cleaner,                \* whose clean_transcript: "class" or "function"
    unwanted_arg,           \* the unwanted_phrases argument of SpeechProcessor(...)
    unwanted_phrases,       \* the denylist clean_transcript reads
    cleanings,              \* a text, what clean_transcript made of it, what
                            \* clean_transcript made of that, ...
    \* ---- the entity extractor (SpecEntities) ----
    epc,                    \* position in extract_entities
    doc_ents,               \* doc.ents: what the spaCy pipeline found
    email_matches,          \* re.findall(email_pattern, text)
    phone_matches,          \* re.findall(phone_pattern, text)
    collected,              \* the four lists as they were before line 225
    entities,               \* the local dictionary entities
    \* ---- process_wav_file and its test (SpecRecord, SpecTest) ----
    tpc,                    \* position in the test
    wav_dir,                \* the names of the files in data/wav
    test_file,              \* data/enriched_transcripts_test.json on disk
    wav_files,              \* the paths process_wav_file is called on, in order
    results,                \* what the calls returned, in order
    calls,                  \* what the engines yielded in each call
    test_data               \* the test's local data: what it read back

fusionVars == <<fpc, diarization_model, transcript_input, transcription_segments,
                diarisation_segments, enriched_segments>>
batchVars == <<entry, pc, directory, failing, artifact, existing_data, processed_files,
               new_entries, combined_data, idx, attempted, log, runs,
               startArtifact, prevOutcome, prevUnfinished>>
cleanVars == <<cleaner, unwanted_arg, unwanted_phrases, cleanings>>
entityVars == <<epc, doc_ents, email_matches, phone_matches, collected, entities>>
recordVars == <<tpc, wav_dir, test_file, wav_files, results, calls, test_data>>
besidesFusion == <<batchVars, cleanVars, entityVars, recordVars>>
besidesBatch == <<fusionVars, cleanVars, entityVars, recordVars>>
besidesClean == <<fusionVars, batchVars, entityVars, recordVars>>
besidesEntities == <<fusionVars, batchVars, cleanVars, recordVars>>
besidesRecord == <<fusionVars, batchVars, cleanVars, entityVars>>
vars == <<fusionVars, batchVars, cleanVars, entityVars, recordVars>>

(***************************************************************************)
(* Bounds of the model.                                                    *)
(***************************************************************************)
MaxTime == 2
MaxT == 2
MaxD == 2
NumFiles == 2
MaxRuns == 2

Speakers == {"Agent", "Customer"}
\* The text the transcription engine hears in the i-th segment of a call.
Utterance == <<"Hello there", "I need help with my order", "Thank you",
               "Goodbye", "One more thing">>
Unknown == "Unknown"

Min(a, b) == IF a < b THEN a ELSE b
Max(a, b) == IF a > b THEN a ELSE b

(***************************************************************************)
(* Segment Fusion: SpeechProcessor.assign_speaker_labels                   *)
(***************************************************************************)

\* overlapping = [d for d in diarisation_segments
\*                if d["end"] > seg_start and d["start"] < seg_end]
Overlapping(seg, diar) ==
    SelectSeq(diar, LAMBDA d : d.end > seg.start /\ d.start < seg.end)

\* Variant with min and max exchanged: the span both segments cover.
OverlapUnion(seg, d) == Max(seg.end, d.end) - Min(seg.start, d.start)

\* overlap = min(seg_end, d["end"]) - max(seg_start, d["start"])
Overlap(seg, d) == Min(seg.end, d.end) - Max(seg.start, d.start)

\* Variant: `>=`, a later equal overlap replaces an earlier one.
BetterOrEqual(overlap, max_overlap) == overlap >= max_overlap

\* Variant: no comparison, the last overlapping segment wins.
AlwaysBetter(overlap, max_overlap) == TRUE

\* if overlap > max_overlap:
Better(overlap, max_overlap) == overlap > max_overlap

\* The for loop over `overlapping`, from position i with the current
\* (best_speaker, max_overlap).
RECURSIVE ScanOverlapping(_, _, _, _, _)
ScanOverlapping(seg, overlapping, i, best_speaker, max_overlap) ==
    IF i > Len(overlapping) THEN best_speaker
    ELSE LET d == overlapping[i]
             overlap == Overlap(seg, d)
         IN IF Better(overlap, max_overlap)
            THEN ScanOverlapping(seg, overlapping, i + 1, d.speaker, overlap)
            ELSE ScanOverlapping(seg, overlapping, i + 1, best_speaker, max_overlap)

\* best_speaker = "Unknown"; max_overlap = 0; for d in overlapping: ...
BestSpeaker(seg, diar) ==
    ScanOverlapping(seg, Overlapping(seg, diar), 1, Unknown, 0)

\* seg["speaker"] = best_speaker: the dict gains (or has overwritten) the key.
WithSpeaker(seg, s) ==
    [start |-> seg.start, end |-> seg.end, text |-> seg.text, speaker |-> s]

\* Variant: segments left without a speaker are not returned.
assign_dropping_unknown(segs, diar) ==
    SelectSeq([i \in 1..Len(segs) |-> WithSpeaker(segs[i], BestSpeaker(segs[i], diar))],
              LAMBDA e : e.speaker # Unknown)

\* The returned list: one element per transcription segment, in order.
assign_speaker_labels(segs, diar) ==
    [i \in 1..Len(segs) |-> WithSpeaker(segs[i], BestSpeaker(segs[i], diar))]

(***************************************************************************)
(* Inputs of one file's pipeline.                                          *)
(***************************************************************************)
Times == 0..MaxTime

\* What the transcription engine yields: spans with start <= end.
TranscriptSpans == {x \in [start : Times, end : Times] : x.start <= x.end}

\* What the diarisation engine yields: a turn of positive length and a label.
DiarSegs ==
    {x \in [start : Times, end : Times, speaker : Speakers] : x.start < x.end}

SeqsUpTo(S, n) == UNION {[1..k -> S] : k \in 0..n}

\* The engine's segments are ordered by start and do not overlap each other.
IsOrdered(segs) ==
    \A i \in 1..(Len(segs) - 1) : segs[i].end <= segs[i + 1].start

\* {"start": seg.start, "end": seg.end, "text": seg.text.strip()} for each
\* segment of the engine, in the engine's order.
Transcripts ==
    {[i \in 1..Len(sp) |->
         [start |-> sp[i].start, end |-> sp[i].end, text |-> Utterance[i]]] :
       sp \in {q \in SeqsUpTo(TranscriptSpans, MaxT) : IsOrdered(q)}}

\* Diarisation output comes in any order and may overlap itself.
Diarisations == SeqsUpTo(DiarSegs, MaxD)

\* The output file on disk: absent, or present with the pieces written to it.
NoFile == [exists |-> FALSE, content |-> <<>>]
FileWith(content) == [exists |-> TRUE, content |-> content]

\* The pieces json.dump writes around the entries of a list.
ListOpen == [json |-> "["]
ListClose == [json |-> "]"]

\* The constructor argument when the caller passes no list, and when the
\* caller passes one.
NotGiven == [given |-> FALSE]
Given(list) == [given |-> TRUE, list |-> list]

\* The cleaner's variables while another machine is looked at.
CleanIdle ==
    /\ cleaner = "none"
    /\ unwanted_arg = NotGiven
    /\ unwanted_phrases = <<>>
    /\ cleanings = <<>>

\* The dictionary extract_entities starts from, lines 204-209.
NoEntities == [emails |-> <<>>, phone_numbers |-> <<>>, names |-> <<>>, products |-> <<>>]

\* The extractor's variables while another machine is looked at.
EntitiesIdle ==
    /\ epc = "idle"
    /\ doc_ents = <<>>
    /\ email_matches = <<>>
    /\ phone_matches = <<>>
    /\ collected = NoEntities
    /\ entities = NoEntities

\* The test's variables while another machine is looked at.
RecordIdle ==
    /\ tpc = "idle"
    /\ wav_dir = {}
    /\ test_file = NoFile
    /\ wav_files = <<>>
    /\ results = <<>>
    /\ calls = <<>>
    /\ test_data = <<>>

\* The batch variables while only one file's pipeline is looked at.
BatchIdle ==
    /\ entry = "none"
    /\ pc = "idle"
    /\ directory = <<>>
    /\ failing = {}
    /\ artifact = NoFile
    /\ existing_data = <<>>
    /\ processed_files = {}
    /\ new_entries = <<>>
    /\ combined_data = <<>>
    /\ idx = 1
    /\ attempted = <<>>
    /\ log = {}
    /\ runs = 0
    /\ startArtifact = NoFile
    /\ prevOutcome = "none"
    /\ prevUnfinished = {}

(***************************************************************************)
(* One file's pipeline up to fusion: process_wav_file, steps 1 to 3.       *)
(***************************************************************************)
InitFusion ==
    /\ fpc = "transcribe"
    /\ diarization_model \in {"None", "loaded"}
    /\ transcript_input = <<>>
    /\ transcription_segments = <<>>
    /\ diarisation_segments = <<>>
    /\ enriched_segments = <<>>
    /\ BatchIdle
    /\ CleanIdle
    /\ EntitiesIdle
    /\ RecordIdle

\* transcription_segments = self.transcribe_wav(str(wav_file))
TranscribeWav ==
    /\ fpc = "transcribe"
    /\ \E segs \in Transcripts :
         /\ transcription_segments' = segs
         /\ transcript_input' = segs
    /\ fpc' = "diarise"
    /\ UNCHANGED <<diarization_model, diarisation_segments, enriched_segments>>
    /\ UNCHANGED besidesFusion

\* diarise_audio with self.diarization_model None: warns and returns [].
DiariseUnavailable ==
    /\ fpc = "diarise"
    /\ diarization_model = "None"
    /\ diarisation_segments' = <<>>
    /\ fpc' = "fuse"
    /\ UNCHANGED <<diarization_model, transcript_input, transcription_segments,
                   enriched_segments>>
    /\ UNCHANGED besidesFusion

\* diarise_audio with a loaded model: the engine's turns, converted one by one.
DiariseAudio ==
    /\ fpc = "diarise"
    /\ diarization_model = "loaded"
    /\ \E diar \in Diarisations : diarisation_segments' = diar
    /\ fpc' = "fuse"
    /\ UNCHANGED <<diarization_model, transcript_input, transcription_segments,
                   enriched_segments>>
    /\ UNCHANGED besidesFusion

\* diarize_file raises: logged and raised again, process_wav_file ends.
DiariseRaises ==
    /\ fpc = "diarise"
    /\ diarization_model = "loaded"
    /\ fpc' = "raised"
    /\ UNCHANGED <<diarization_model, transcript_input, transcription_segments,
                   diarisation_segments, enriched_segments>>
    /\ UNCHANGED besidesFusion

\* enriched_segments = self.assign_speaker_labels(transcription_segments,
\*                                                 diarisation_segments)
\* The loop sets seg["speaker"] on the caller's dicts and appends those same
\* dicts, so the caller's list shows the labels too.
AssignSpeakerLabels ==
    /\ fpc = "fuse"
    /\ enriched_segments' =
           assign_speaker_labels(transcription_segments, diarisation_segments)
    /\ transcription_segments' =
           [i \in 1..Len(transcription_segments) |->
               WithSpeaker(transcription_segments[i],
                           BestSpeaker(transcription_segments[i], diarisation_segments))]
    /\ fpc' = "fused"
    /\ UNCHANGED <<diarization_model, transcript_input, diarisation_segments>>
    /\ UNCHANGED besidesFusion

NextFusion ==
    \/ TranscribeWav
    \/ DiariseUnavailable
    \/ DiariseAudio
    \/ DiariseRaises
    \/ AssignSpeakerLabels

SpecFusion == InitFusion /\ [][NextFusion]_vars

(***************************************************************************)
(* The batch run: SpeechProcessor.process_all_files                        *)
(***************************************************************************)
FileNames == <<"a.wav", "b.wav", "c.wav", "d.wav">>
Files == {FileNames[i] : i \in 1..NumFiles}

\* What process_wav_file returns for a file today.  The batch run only
\* reads the "file" key; "transcript" stands for the rest of the record.
Result(f) == [file |-> f, transcript |-> "current"]

\* Records an earlier run may have left: made from today's audio and models,
\* or from earlier ones.
PriorRecords == [file : Files, transcript : {"current", "earlier"}]

\* json.dump(combined_data, f, indent=2) writes "[", the entries in order,
\* then "]".
Dump(data) == <<ListOpen>> \o data \o <<ListClose>>

\* json.load accepts the content: a complete list.
IsJson(content) ==
    /\ Len(content) >= 2
    /\ content[1] = ListOpen
    /\ content[Len(content)] = ListClose
    /\ \A i \in 2..(Len(content) - 1) : content[i] \notin {ListOpen, ListClose}

\* existing_data = json.load(f)
Load(content) == SubSeq(content, 2, Len(content) - 1)

\* Variant: no entry counts as processed.
NoneProcessed(data) == {}

\* Variant: the set is built from another key of the entries.
ProcessedFilesByTranscript(data) ==
    {data[i].transcript : i \in 1..Len(data)}

\* processed_files = { entry["file"] for entry in existing_data }
ProcessedFiles(data) == {data[i].file : i \in 1..Len(data)}

\* The try block of the load succeeds: json.load does, and every entry has
\* the "file" key.
Loadable(content) ==
    /\ IsJson(content)
    /\ \A i \in 1..Len(Load(content)) : "file" \in DOMAIN Load(content)[i]

\* Variant: the path, not the name, is looked up.
IsPathProcessed(name, processed) == ("data/wav/" \o name) \in processed

\* if wav_file.name in processed_files:
IsProcessed(name, processed) == name \in processed

NoDuplicates(q) == \A i, j \in 1..Len(q) : i # j => q[i] # q[j]

\* wav_dir.glob("*.wav"): each file once, in the order the directory gives.
Directories == {q \in SeqsUpTo(Files, NumFiles) : NoDuplicates(q)}

Range(q) == {q[i] : i \in 1..Len(q)}

\* Collections earlier runs may have left: one record per file, in any
\* order.
PriorCollections ==
    {q \in SeqsUpTo(PriorRecords, NumFiles) :
        \A i, j \in 1..Len(q) : i # j => q[i].file # q[j].file}

\* The fusion variables while the batch run is looked at.
FusionIdle ==
    /\ fpc = "idle"
    /\ diarization_model = "None"
    /\ transcript_input = <<>>
    /\ transcription_segments = <<>>
    /\ diarisation_segments = <<>>
    /\ enriched_segments = <<>>

Init ==
    /\ entry = "none"
    /\ pc = "idle"
    /\ directory \in Directories
    /\ failing \in SUBSET Range(directory)
    /\ artifact \in {NoFile} \cup {FileWith(Dump(d)) : d \in PriorCollections}
    /\ existing_data = <<>>
    /\ processed_files = {}
    /\ new_entries = <<>>
    /\ combined_data = <<>>
    /\ idx = 1
    /\ attempted = <<>>
    /\ log = {}
    /\ runs = 0
    /\ startArtifact = artifact
    /\ prevOutcome = "none"
    /\ prevUnfinished = {}
    /\ FusionIdle
    /\ CleanIdle
    /\ EntitiesIdle
    /\ RecordIdle

\* The file the run was interrupted in, if it was.
Interrupted ==
    IF pc = "interrupted" THEN {attempted[Len(attempted)]} ELSE {}

\* The files of the current run whose process_wav_file call raised.
Raised ==
    {attempted[j] : j \in {i \in 1..Len(attempted) : attempted[i] \in failing}}
        \ Interrupted

\* The files of the current run whose process_wav_file call did not return.
Unfinished == Raised \cup Interrupted

\* How the run that just ended went.
RunOutcome ==
    IF pc = "idle" THEN "none"
    ELSE IF pc = "aborted" THEN "aborted"
    ELSE IF pc = "interrupted" THEN "interrupted"
    ELSE IF entry = "main" THEN "rewritten"
    ELSE IF new_entries # <<>> THEN "saved"
    ELSE "no new files"

\* What every way of starting a run does: lines 312-313 and 328 of
\* process_all_files, lines 183-184 of main.
StartRun ==
    /\ pc \in {"idle", "done", "aborted", "interrupted"}
    /\ runs < MaxRuns
    /\ runs' = runs + 1
    /\ prevOutcome' = RunOutcome
    /\ prevUnfinished' = IF entry = "process_all_files" THEN Unfinished ELSE {}
    /\ startArtifact' = artifact
    /\ new_entries' = <<>>
    /\ combined_data' = <<>>
    /\ idx' = 1
    /\ attempted' = <<>>
    /\ pc' = "loop"
    /\ UNCHANGED <<directory, failing, artifact>>
    /\ UNCHANGED besidesBatch

\* output_path.exists() is false: lines 324-326.
LoadNoFile ==
    /\ StartRun
    /\ entry' = "process_all_files"
    /\ ~artifact.exists
    /\ existing_data' = <<>>
    /\ processed_files' = {}
    /\ log' = {}

\* The try block succeeds: lines 315-319.
LoadExisting ==
    /\ StartRun
    /\ entry' = "process_all_files"
    /\ artifact.exists
    /\ Loadable(artifact.content)
    /\ existing_data' = Load(artifact.content)
    /\ processed_files' = ProcessedFiles(existing_data')
    /\ log' = {}

\* json.load or entry["file"] raises: lines 320-323 log the error and go on
\* from an empty collection.
LoadUnreadable ==
    /\ StartRun
    /\ entry' = "process_all_files"
    /\ artifact.exists
    /\ ~Loadable(artifact.content)
    /\ existing_data' = <<>>
    /\ processed_files' = {}
    /\ log' = {<<"error reading", "">>}

\* rich_processing.main, lines 183-184: nothing is loaded, output_data = [].
StartMain ==
    /\ StartRun
    /\ entry' = "main"
    /\ existing_data' = <<>>
    /\ processed_files' = {}
    /\ log' = {}

InLoop == pc = "loop" /\ idx <= Len(directory)

\* Lines 331-333.
SkipProcessed ==
    /\ InLoop
    /\ IsProcessed(directory[idx], processed_files)
    /\ log' = log \cup {<<"skipping", directory[idx]>>}
    /\ idx' = idx + 1
    /\ UNCHANGED <<entry, pc, directory, failing, artifact, existing_data,
                   processed_files, new_entries, combined_data, attempted, runs,
                   startArtifact, prevOutcome, prevUnfinished>>
    /\ UNCHANGED besidesBatch

\* Lines 334-337 (main: 188-190): process_wav_file returns.
ProcessFile ==
    /\ InLoop
    /\ ~IsProcessed(directory[idx], processed_files)
    /\ directory[idx] \notin failing
    /\ attempted' = Append(attempted, directory[idx])
    /\ new_entries' = Append(new_entries, Result(directory[idx]))
    /\ log' = log \cup {<<"processed", directory[idx]>>}
    /\ idx' = idx + 1
    /\ UNCHANGED <<entry, pc, directory, failing, artifact, existing_data,
                   processed_files, combined_data, runs, startArtifact, prevOutcome, prevUnfinished>>
    /\ UNCHANGED besidesBatch

\* Variant: no try/except around process_wav_file, the error ends the run.
ProcessFileRaisesOut ==
    /\ InLoop
    /\ ~IsProcessed(directory[idx], processed_files)
    /\ directory[idx] \in failing
    /\ attempted' = Append(attempted, directory[idx])
    /\ pc' = "aborted"
    /\ UNCHANGED <<entry, directory, failing, artifact, existing_data,
                   processed_files, new_entries, combined_data, idx, log, runs,
                   startArtifact, prevOutcome, prevUnfinished>>
    /\ UNCHANGED besidesBatch

\* Variant: the handler keeps what the failed call had produced so far.
ProcessFileFailsKeepingPartial ==
    /\ InLoop
    /\ ~IsProcessed(directory[idx], processed_files)
    /\ directory[idx] \in failing
    /\ attempted' = Append(attempted, directory[idx])
    /\ new_entries' = Append(new_entries,
                             [file |-> directory[idx], transcript |-> "partial"])
    /\ log' = log \cup {<<"error processing", directory[idx]>>}
    /\ idx' = idx + 1
    /\ UNCHANGED <<entry, pc, directory, failing, artifact, existing_data,
                   processed_files, combined_data, runs, startArtifact,
                   prevOutcome, prevUnfinished>>
    /\ UNCHANGED besidesBatch

\* Variant: after a failure the loop stays on the file.
ProcessFileFailsAndRetries ==
    /\ InLoop
    /\ ~IsProcessed(directory[idx], processed_files)
    /\ directory[idx] \in failing
    /\ attempted' = Append(attempted, directory[idx])
    /\ log' = log \cup {<<"error processing", directory[idx]>>}
    /\ UNCHANGED <<entry, pc, directory, failing, artifact, existing_data,
                   processed_files, new_entries, combined_data, idx, runs,
                   startArtifact, prevOutcome, prevUnfinished>>
    /\ UNCHANGED besidesBatch

\* Lines 334-335 and 338-339 (main: 188-189 and 191-192): process_wav_file
\* raises, the error is logged and the loop goes on.
ProcessFileFails ==
    /\ InLoop
    /\ ~IsProcessed(directory[idx], processed_files)
    /\ directory[idx] \in failing
    /\ attempted' = Append(attempted, directory[idx])
    /\ log' = log \cup {<<"error processing", directory[idx]>>}
    /\ idx' = idx + 1
    /\ UNCHANGED <<entry, pc, directory, failing, artifact, existing_data,
                   processed_files, new_entries, combined_data, runs, startArtifact,
                   prevOutcome, prevUnfinished>>
    /\ UNCHANGED besidesBatch

\* Lines 334-338 (main: 188-191): the run is interrupted (KeyboardInterrupt,
\* SystemExit) inside process_wav_file.  "except Exception" does not catch
\* these, so the interrupt leaves the loop and the function: nothing is
\* appended, nothing is logged, nothing is written.
ProcessFileInterrupted ==
    /\ InLoop
    /\ ~IsProcessed(directory[idx], processed_files)
    /\ attempted' = Append(attempted, directory[idx])
    /\ pc' = "interrupted"
    /\ UNCHANGED <<entry, directory, failing, artifact, existing_data,
                   processed_files, new_entries, combined_data, idx, log, runs,
                   startArtifact, prevOutcome, prevUnfinished>>
    /\ UNCHANGED besidesBatch

LoopOver == pc = "loop" /\ idx > Len(directory)

\* Variant: the file is rewritten whether or not there is anything new.
NoNewEntriesRewrites ==
    /\ LoopOver
    /\ entry = "process_all_files"
    /\ new_entries = <<>>
    /\ combined_data' = existing_data \o new_entries
    /\ artifact' = FileWith(<<>>)
    /\ pc' = "write"
    /\ UNCHANGED <<entry, directory, failing, existing_data, processed_files,
                   new_entries, idx, attempted, log, runs, startArtifact,
                   prevOutcome, prevUnfinished>>
    /\ UNCHANGED besidesBatch

\* Lines 347-348.
NoNewEntries ==
    /\ LoopOver
    /\ entry = "process_all_files"
    /\ new_entries = <<>>
    /\ log' = log \cup {<<"no new files", "">>}
    /\ pc' = "done"
    /\ UNCHANGED <<entry, directory, failing, artifact, existing_data,
                   processed_files, new_entries, combined_data, idx, attempted, runs,
                   startArtifact, prevOutcome, prevUnfinished>>
    /\ UNCHANGED besidesBatch

\* Lines 342-344: combined_data is built and output_path.open("w") creates
\* the file or cuts it to length zero.
OpenForWrite ==
    /\ LoopOver
    /\ entry = "process_all_files"
    /\ new_entries # <<>>
    /\ combined_data' = existing_data \o new_entries
    /\ artifact' = FileWith(<<>>)
    /\ pc' = "write"
    /\ UNCHANGED <<entry, directory, failing, existing_data, processed_files,
                   new_entries, idx, attempted, log, runs, startArtifact, prevOutcome, prevUnfinished>>
    /\ UNCHANGED besidesBatch

\* rich_processing.main, lines 195-196: the file is opened for writing
\* whatever output_data holds, and output_data is what gets written.
MainOpenForWrite ==
    /\ LoopOver
    /\ entry = "main"
    /\ combined_data' = new_entries
    /\ artifact' = FileWith(<<>>)
    /\ pc' = "write"
    /\ UNCHANGED <<entry, directory, failing, existing_data, processed_files,
                   new_entries, idx, attempted, log, runs, startArtifact, prevOutcome, prevUnfinished>>
    /\ UNCHANGED besidesBatch

\* Line 345 (main: 197): json.dump hands the next piece to the file; after
\* the last one the file is closed and line 346 (main: 198) logs the save.
WriteChunk ==
    /\ pc = "write"
    /\ Len(artifact.content) < Len(Dump(combined_data))
    /\ artifact' = FileWith(Append(artifact.content,
                                   Dump(combined_data)[Len(artifact.content) + 1]))
    /\ IF artifact'.content = Dump(combined_data)
       THEN /\ pc' = "done"
            /\ log' = log \cup {<<"saved", "">>}
       ELSE UNCHANGED <<pc, log>>
    /\ UNCHANGED <<entry, directory, failing, existing_data, processed_files,
                   new_entries, combined_data, idx, attempted, runs, startArtifact,
                   prevOutcome, prevUnfinished>>
    /\ UNCHANGED besidesBatch

\* The write raises (disk full, I/O error) or the process is killed while
\* the file is open: nothing catches it, the run ends, the file keeps what
\* reached it.
WriteFails ==
    /\ pc = "write"
    /\ pc' = "aborted"
    /\ UNCHANGED <<entry, directory, failing, artifact, existing_data,
                   processed_files, new_entries, combined_data, idx, attempted, log,
                   runs, startArtifact, prevOutcome, prevUnfinished>>
    /\ UNCHANGED besidesBatch

Next ==
    \/ LoadNoFile
    \/ LoadExisting
    \/ LoadUnreadable
    \/ StartMain
    \/ SkipProcessed
    \/ ProcessFile
    \/ ProcessFileFails
    \/ ProcessFileInterrupted
    \/ NoNewEntries
    \/ OpenForWrite
    \/ MainOpenForWrite
    \/ WriteChunk
    \/ WriteFails

Spec == Init /\ [][Next]_vars

(***************************************************************************)
(* The transcript cleaner: clean_transcript of SpeechProcessor and of      *)
(* rich_processing.                                                        *)
(* A text is a sequence of tokens: a word (a run of characters that are    *)
(* not whitespace), a space or a line break.                               *)
(***************************************************************************)
MaxLen == 4
MaxCleanings == 2

SP == " "
NL == "\n"
Whitespace == {SP, NL}

\* The words the enumerated texts are made of.
Vocabulary == {"Please", "please", "press", "pressing", "hello"}

\* word.startswith(prefix): the pairs (prefix, word) of different words of
\* the model of which the first begins the second.
ProperPrefixes == {<<"press", "pressing">>, <<"call", "calling">>, <<"a", "an">>}
WordStartsWith(word, prefix) == word = prefix \/ <<prefix, word>> \in ProperPrefixes

\* The list of lines 94-101 (rich_processing: 123-130).
DefaultUnwantedPhrases ==
    << <<"Thank", SP, "you", SP, "for", SP, "calling">>,
       <<"Please", SP, "press">>,
       <<"You", SP, "have", SP, "an", SP, "incoming", SP, "call">>,
       <<"Our", SP, "office", SP, "is", SP, "currently", SP, "closed">>,
       <<"Welcome", SP, "to", SP, "the">>,
       <<"Please", SP, "leave", SP, "a", SP, "message">> >>

\* self.unwanted_phrases = unwanted_phrases or [...]: None and the empty list
\* are both false.
ConstructedPhrases(arg) ==
    IF arg.given /\ arg.list # <<>> THEN arg.list ELSE DefaultUnwantedPhrases

\* text.splitlines(): the pieces between line breaks; a line break at the
\* end of the text ends the last line and starts no new one.
RECURSIVE SplitLines(_)
SplitLines(text) ==
    IF text = <<>> THEN <<>>
    ELSE LET breaks == {i \in 1..Len(text) : text[i] = NL}
         IN IF breaks = {} THEN <<text>>
            ELSE LET k == CHOOSE i \in breaks : \A j \in breaks : i <= j
                 IN <<SubSeq(text, 1, k - 1)>> \o SplitLines(SubSeq(text, k + 1, Len(text)))

\* line.strip()
RECURSIVE Strip(_)
Strip(line) ==
    IF line = <<>> THEN <<>>
    ELSE IF Head(line) \in Whitespace THEN Strip(Tail(line))
    ELSE IF line[Len(line)] \in Whitespace THEN Strip(SubSeq(line, 1, Len(line) - 1))
    ELSE line

\* Variant: the phrase is looked for anywhere in the line.
Contains(line, phrase) ==
    \E d \in 0..Len(line) :
        /\ d + Len(phrase) <= Len(line)
        /\ \A i \in 1..Len(phrase) : line[d + i] = phrase[i]

\* line.startswith(phrase): the line begins with the characters of phrase.
StartsWith(line, phrase) ==
    /\ Len(phrase) <= Len(line)
    /\ \A i \in 1..(Len(phrase) - 1) : line[i] = phrase[i]
    /\ phrase # <<>> => WordStartsWith(line[Len(phrase)], phrase[Len(phrase)])

\* " ".join(lines)
RECURSIVE SpaceJoin(_)
SpaceJoin(lines) ==
    IF lines = <<>> THEN <<>>
    ELSE IF Len(lines) = 1 THEN lines[1]
    ELSE lines[1] \o <<SP>> \o SpaceJoin(Tail(lines))

\* The loop of lines 245-248 (rich_processing: 132-136) from line i on.
RECURSIVE CleanedLines(_, _, _)
CleanedLines(lines, phrases, i) ==
    IF i > Len(lines) THEN <<>>
    ELSE IF \E p \in 1..Len(phrases) : StartsWith(Strip(lines[i]), phrases[p])
         THEN CleanedLines(lines, phrases, i + 1)
         ELSE <<Strip(lines[i])>> \o CleanedLines(lines, phrases, i + 1)

\* clean_transcript, lines 243-250 (rich_processing: 131-137).
clean_transcript(text, phrases) == SpaceJoin(CleanedLines(SplitLines(text), phrases, 1))

\* Two texts of the spec's scenarios, longer than the enumerated ones: a
\* greeting line before the customer's line, and a line with the phrase
\* "Please press" in its middle.
GreetingThenRequest ==
    <<"Thank", SP, "you", SP, "for", SP, "calling", NL,
      "I", SP, "need", SP, "help", SP, "with", SP, "my", SP, "order">>
PhraseMidLine == <<"hello", SP, "Please", SP, "press">>

\* The texts the cleaner is tried on.
Tokens == Vocabulary \cup Whitespace
Texts == SeqsUpTo(Tokens, MaxLen) \cup {GreetingThenRequest, PhraseMidLine}

\* The lists a caller passes as unwanted_phrases.
CallerLists ==
    { <<>>,
      << <<"hello">> >>,
      << <<"please", SP, "press">>, <<"press">> >> }

\* A processor has been constructed with or without a list (lines 93-101),
\* or the function of rich_processing, which takes no list, is the cleaner;
\* a text is at hand.
InitClean ==
    /\ cleaner \in {"class", "function"}
    /\ unwanted_arg \in IF cleaner = "class"
                        THEN {NotGiven} \cup {Given(l) : l \in CallerLists}
                        ELSE {NotGiven}
    /\ unwanted_phrases = IF cleaner = "class"
                          THEN ConstructedPhrases(unwanted_arg)
                          ELSE DefaultUnwantedPhrases
    /\ \E text \in Texts : cleanings = <<text>>
    /\ FusionIdle
    /\ BatchIdle
    /\ EntitiesIdle
    /\ RecordIdle

\* clean_transcript is called on the text last obtained.
CleanTranscript ==
    /\ cleaner # "none"
    /\ Len(cleanings) <= MaxCleanings
    /\ cleanings' = Append(cleanings,
                           clean_transcript(cleanings[Len(cleanings)], unwanted_phrases))
    /\ UNCHANGED <<cleaner, unwanted_arg, unwanted_phrases>>
    /\ UNCHANGED besidesClean

NextClean == CleanTranscript

SpecClean == InitClean /\ [][NextClean]_vars

(***************************************************************************)
(* The entity extractor: extract_entities of SpeechProcessor and of        *)
(* rich_processing.  What the spaCy pipeline finds in the text and what    *)
(* re.findall returns for the two patterns are inputs of the model.        *)
(***************************************************************************)
MaxEnts == 2
MaxMatches == 2

\* Entity texts, among them two that differ in case only and two that
\* differ in a space at the end only.
Spans == {"Acme", "acme", "Acme "}
Labels == {"PERSON", "ORG", "PRODUCT", "GPE"}
EmailStrings == {"jo@acme.com", "Jo@acme.com"}
PhoneStrings == {"+44 20 7946 0958"}

\* doc.ents: the spans the pipeline found, in text order.
DocEnts == SeqsUpTo([text : Spans, label_ : Labels], MaxEnts)

\* Variant: places count as names too.
IsPlaceOrNameLabel(label) == label \in {"PERSON", "ORG", "GPE"}

\* if ent.label_ in ["PERSON", "ORG"]:
IsNameLabel(label) == label \in {"PERSON", "ORG"}

\* elif ent.label_ == "PRODUCT":
IsProductLabel(label) == ~IsNameLabel(label) /\ label = "PRODUCT"

\* The loop of lines 211-215 from span i on: what it appends to names.
RECURSIVE NamesFrom(_, _)
NamesFrom(ents, i) ==
    IF i > Len(ents) THEN <<>>
    ELSE IF IsNameLabel(ents[i].label_)
         THEN <<ents[i].text>> \o NamesFrom(ents, i + 1)
         ELSE NamesFrom(ents, i + 1)

\* The same loop: what it appends to products.
RECURSIVE ProductsFrom(_, _)
ProductsFrom(ents, i) ==
    IF i > Len(ents) THEN <<>>
    ELSE IF IsProductLabel(ents[i].label_)
         THEN <<ents[i].text>> \o ProductsFrom(ents, i + 1)
         ELSE ProductsFrom(ents, i + 1)

\* Lines 204-222: the four lists before duplicates are removed.
Collect(ents, emails, phones) ==
    [emails |-> emails,
     phone_numbers |-> phones,
     names |-> NamesFrom(ents, 1),
     products |-> ProductsFrom(ents, 1)]

\* Variant: the list is kept as it is.
KeptAsIs(list) == {list}

\* list(set(list)): every string of the list once, in an order that the
\* set's hashing decides.
ListOfSet(list) ==
    {q \in [1..Cardinality(Range(list)) -> Range(list)] : Range(q) = Range(list)}

\* extract_entities is about to be called on a text.
InitEntities ==
    /\ epc = "ready"
    /\ doc_ents = <<>>
    /\ email_matches = <<>>
    /\ phone_matches = <<>>
    /\ collected = NoEntities
    /\ entities = NoEntities
    /\ FusionIdle
    /\ BatchIdle
    /\ CleanIdle
    /\ RecordIdle

\* Lines 203-222: the pipeline and the two patterns are run on the text and
\* what they find is put into the four lists.
CollectEntities ==
    /\ epc = "ready"
    /\ \E ents \in DocEnts, emails \in SeqsUpTo(EmailStrings, MaxMatches),
          phones \in SeqsUpTo(PhoneStrings, MaxMatches) :
          /\ doc_ents' = ents
          /\ email_matches' = emails
          /\ phone_matches' = phones
          /\ collected' = Collect(ents, emails, phones)
          /\ entities' = Collect(ents, emails, phones)
    /\ epc' = "collected"
    /\ UNCHANGED besidesEntities

\* Lines 225-228: each list is replaced by list(set(...)) and the
\* dictionary is returned.
RemoveDuplicates ==
    /\ epc = "collected"
    /\ \E e \in ListOfSet(entities.emails), p \in ListOfSet(entities.phone_numbers),
          n \in ListOfSet(entities.names), q \in ListOfSet(entities.products) :
          entities' = [emails |-> e, phone_numbers |-> p, names |-> n, products |-> q]
    /\ epc' = "extracted"
    /\ UNCHANGED <<doc_ents, email_matches, phone_matches, collected>>
    /\ UNCHANGED besidesEntities

NextEntities ==
    \/ CollectEntities
    \/ RemoveDuplicates

SpecEntities == InitEntities /\ [][NextEntities]_vars

(***************************************************************************)
(* One file's pipeline as a whole, process_wav_file, and the test that     *)
(* runs it on the first files of data/wav: test_sample.py.                 *)
(***************************************************************************)
NumTestFiles == 2

\* A path below data/wav.
WavPath(name) == [dir |-> "data/wav", name |-> name]

\* Variant: str(wav_file), the path as a whole.
FullPath(path) == path.dir \o "/" \o path.name

\* wav_file.name
NameOf(path) == path.name

\* What the transcription engine says in one segment: nothing, a word, a
\* phrase of the default denylist, two lines of which the first is such a
\* phrase.
SegTexts == {<<>>, <<"hello">>, <<"Please", SP, "press">>,
             <<"Please", SP, "press", NL, "hello">>}

\* transcribe_wav: segments one after the other, a time unit each.
RecordTranscripts ==
    {[i \in 1..Len(t) |-> [start |-> i - 1, end |-> i, text |-> t[i]]] :
        t \in SeqsUpTo(SegTexts, MaxT)}

\* What the engines yield for one file: whether the diarisation model was
\* loaded, the transcription segments, the diarisation segments (none
\* without a model, lines 134-136).
Calls ==
    {c \in [model : {"None", "loaded"}, segs : RecordTranscripts, diar : Diarisations] :
        c.model = "None" => c.diar = <<>>}

\* The engines' output for the files of the test: at most one segment, no
\* turn or one turn of the customer over it.
TestCalls ==
    {c \in [model : {"None", "loaded"},
            segs : {t \in RecordTranscripts : Len(t) <= 1},
            diar : {<<>>, <<[start |-> 0, end |-> 1, speaker |-> "Customer"]>>}] :
        c.model = "None" => c.diar = <<>>}

\* What the pipeline and the patterns find in a cleaned transcript: nothing,
\* or an organisation and an email address.
NothingFound == [ents |-> <<>>, emails |-> <<>>, phones |-> <<>>]
Findings ==
    {NothingFound,
     [ents |-> <<[text |-> "Acme", label_ |-> "ORG"]>>,
      emails |-> <<"jo@acme.com">>, phones |-> <<>>]}

\* extract_entities(text): the dictionaries it may return.
extract_entities(text) ==
    LET found == IF text = <<>> THEN {NothingFound} ELSE Findings
    IN UNION {
         {[emails |-> e, phone_numbers |-> p, names |-> n, products |-> q] :
             e \in ListOfSet(Collect(f.ents, f.emails, f.phones).emails),
             p \in ListOfSet(Collect(f.ents, f.emails, f.phones).phone_numbers),
             n \in ListOfSet(Collect(f.ents, f.emails, f.phones).names),
             q \in ListOfSet(Collect(f.ents, f.emails, f.phones).products)} :
         f \in found}

\* The labels of the model that the string "Customer" is part of.
LabelsWithCustomer == {"Customer"}

\* Variant: every segment that has a speaker counts.
HasSpeaker(label) == label # Unknown

\* "Customer" in seg["speaker"]
HasCustomer(label) == label \in LabelsWithCustomer

\* seg["text"] for seg in segs
TextsOf(segs) == [i \in 1..Len(segs) |-> segs[i].text]

\* Variant: the texts are joined by line breaks.
RECURSIVE LineJoin(_)
LineJoin(lines) ==
    IF lines = <<>> THEN <<>>
    ELSE IF Len(lines) = 1 THEN lines[1]
    ELSE lines[1] \o <<NL>> \o LineJoin(Tail(lines))

\* Variant: one line for each segment.
transcript_by_lines(enriched) == LineJoin(TextsOf(enriched))

\* Line 280.
full_transcript(enriched) == SpaceJoin(TextsOf(enriched))

\* Line 284.
customer_transcript(enriched) ==
    SpaceJoin(TextsOf(SelectSeq(enriched, LAMBDA seg : HasCustomer(seg.speaker))))

\* process_wav_file, lines 277-295, for what the engines yielded: the
\* dictionaries it may return.
process_wav_file(path, call, phrases) ==
    LET enriched == assign_speaker_labels(call.segs, call.diar)
        cleaned == clean_transcript(full_transcript(enriched), phrases)
    IN {[file |-> NameOf(path),
         transcript |-> cleaned,
         customer_transcript |-> customer_transcript(enriched),
         segments |-> enriched,
         entities |-> e] : e \in extract_entities(cleaned)}

\* process_wav_file is called on the next file of wav_files and returns.
ProcessNext(from) ==
    /\ \E call \in from :
         /\ \E result \in process_wav_file(wav_files[Len(results) + 1], call,
                                           unwanted_phrases) :
                results' = Append(results, result)
         /\ calls' = Append(calls, call)
    /\ UNCHANGED <<tpc, wav_dir, test_file, wav_files, test_data>>
    /\ UNCHANGED besidesRecord

\* A processor has been constructed, with the default denylist or with a
\* list of its own, and process_wav_file is about to be called on a file.
InitRecord ==
    /\ tpc = "loop"
    /\ wav_dir = {}
    /\ test_file = NoFile
    /\ wav_files = <<WavPath(FileNames[1])>>
    /\ results = <<>>
    /\ calls = <<>>
    /\ test_data = <<>>
    /\ cleaner = "class"
    /\ unwanted_arg \in {NotGiven, Given(<< <<"hello">> >>)}
    /\ unwanted_phrases = ConstructedPhrases(unwanted_arg)
    /\ cleanings = <<>>
    /\ FusionIdle
    /\ BatchIdle
    /\ EntitiesIdle

\* Lines 252-295.
ProcessWavFile ==
    /\ tpc = "loop"
    /\ Len(results) < Len(wav_files)
    /\ ProcessNext(Calls)

\* Lines 271 and 274: transcribe_wav or diarise_audio raises (lines 119-121
\* and 140-142) and process_wav_file passes the error on.
ProcessWavFileRaises ==
    /\ tpc = "loop"
    /\ Len(results) < Len(wav_files)
    /\ tpc' = "error"
    /\ UNCHANGED <<wav_dir, test_file, wav_files, results, calls, test_data>>
    /\ UNCHANGED besidesRecord

NextRecord ==
    \/ ProcessWavFile
    \/ ProcessWavFileRaises

SpecRecord == InitRecord /\ [][NextRecord]_vars

\* sorted(glob.glob("data/wav/*.wav")): the paths of the files, by name.
SortedPaths(names) ==
    LET sorted == SelectSeq(FileNames, LAMBDA n : n \in names)
    IN [i \in 1..Len(sorted) |-> WavPath(sorted[i])]

\* q[:n]
FirstN(q, n) == SubSeq(q, 1, Min(n, Len(q)))

\* test_sample.py, lines 27-30: SpeechProcessor() has been constructed;
\* data/wav holds some files and an earlier output may be on disk.  The
\* number of files the test takes, 10, is NumTestFiles here.
InitTest ==
    /\ tpc = "start"
    /\ wav_dir \in SUBSET Range(FileNames)
    /\ test_file \in {NoFile, FileWith(Dump(<<>>))}
    /\ wav_files = <<>>
    /\ results = <<>>
    /\ calls = <<>>
    /\ test_data = <<>>
    /\ cleaner = "class"
    /\ unwanted_arg = NotGiven
    /\ unwanted_phrases = ConstructedPhrases(unwanted_arg)
    /\ cleanings = <<>>
    /\ FusionIdle
    /\ BatchIdle
    /\ EntitiesIdle

\* test_sample.py, lines 33-40: the old output is removed, the first files
\* are taken and counted.
TestSetup ==
    /\ tpc = "start"
    /\ test_file' = NoFile
    /\ wav_files' = FirstN(SortedPaths(wav_dir), NumTestFiles)
    /\ tpc' = IF Len(wav_files') = NumTestFiles THEN "loop" ELSE "failed"
    /\ UNCHANGED <<wav_dir, results, calls, test_data>>
    /\ UNCHANGED besidesRecord

\* test_sample.py, lines 42-46: one pass of the loop.
TestProcessWavFile ==
    /\ tpc = "loop"
    /\ Len(results) < Len(wav_files)
    /\ ProcessNext(TestCalls)

\* test_sample.py, lines 49-50.
TestSave ==
    /\ tpc = "loop"
    /\ Len(results) = Len(wav_files)
    /\ test_file' = FileWith(Dump(results))
    /\ tpc' = "saved"
    /\ UNCHANGED <<wav_dir, wav_files, results, calls, test_data>>
    /\ UNCHANGED besidesRecord

\* test_sample.py, lines 58-64: the file is read back and the asserts run.
TestLoad ==
    /\ tpc = "saved"
    /\ test_data' = IF test_file.exists /\ IsJson(test_file.content)
                    THEN Load(test_file.content) ELSE <<>>
    /\ tpc' = IF test_file.exists /\ IsJson(test_file.content)
                  /\ Len(test_data') = NumTestFiles
              THEN "passed" ELSE "failed"
    /\ UNCHANGED <<wav_dir, test_file, wav_files, results, calls>>
    /\ UNCHANGED besidesRecord

NextTest ==
    \/ TestSetup
    \/ TestProcessWavFile
    \/ ProcessWavFileRaises
    \/ TestSave
    \/ TestLoad

SpecTest == InitTest /\ [][NextTest]_vars

(***************************************************************************)
(* The per-file variant: the main block of services/data_processing.py,    *)
(* which transcribes the files of data/wav that data/transcripts.json does *)
(* not list and rewrites that file after each of them.  It uses the batch  *)
(* variables: artifact is data/transcripts.json, existing_data the entries *)
(* loaded into transcripts, new_entries those appended to it since.        *)
(***************************************************************************)

\* The entry lines 46-49 append for a file.
TranscriptEntry(f) == [file |-> f, text |-> "current"]

\* A file an earlier run transcribed and that has left data/wav since.
RemovedFile == "removed.wav"

\* Files earlier runs may have left: one entry per file, in any order.
PriorTranscripts ==
    {q \in SeqsUpTo([file : Files \cup {RemovedFile}, text : {"current", "earlier"}],
                    NumFiles) :
        \A i, j \in 1..Len(q) : i # j => q[i].file # q[j].file}

\* Line 38: the files of the directory that are not in processed_files.
RemainingFiles ==
    SelectSeq(directory, LAMBDA f : ~IsProcessed(f, processed_files))

\* How the run of the script that just ended went.
ScriptOutcome ==
    IF pc = "idle" THEN "none"
    ELSE IF pc = "done" THEN "all processed"
    ELSE IF pc = "stopped" THEN "transcription failed"
    ELSE "aborted"

InitIncremental ==
    /\ entry = "none"
    /\ pc = "idle"
    /\ directory \in Directories
    /\ failing \in SUBSET Range(directory)
    /\ artifact \in {NoFile} \cup {FileWith(Dump(d)) : d \in PriorTranscripts}
    /\ existing_data = <<>>
    /\ processed_files = {}
    /\ new_entries = <<>>
    /\ combined_data = <<>>
    /\ idx = 1
    /\ attempted = <<>>
    /\ log = {}
    /\ runs = 0
    /\ startArtifact = artifact
    /\ prevOutcome = "none"
    /\ prevUnfinished = {}
    /\ FusionIdle
    /\ CleanIdle
    /\ EntitiesIdle
    /\ RecordIdle

\* The script is started: lines 20-22.
StartScript ==
    /\ pc \in {"idle", "done", "stopped", "aborted"}
    /\ runs < MaxRuns
    /\ runs' = runs + 1
    /\ entry' = "data_processing"
    /\ prevOutcome' = ScriptOutcome
    /\ startArtifact' = artifact
    /\ new_entries' = <<>>
    /\ combined_data' = <<>>
    /\ idx' = 1
    /\ attempted' = <<>>
    /\ log' = {}
    /\ UNCHANGED <<directory, failing, artifact, prevUnfinished>>
    /\ UNCHANGED besidesBatch

\* Lines 29-30: there is no transcripts file.
TranscriptsAbsent ==
    /\ StartScript
    /\ ~artifact.exists
    /\ existing_data' = <<>>
    /\ processed_files' = {}
    /\ pc' = "loop"

\* Lines 25-28 and 33-40: the file is loaded and the remaining files are
\* listed.
TranscriptsLoaded ==
    /\ StartScript
    /\ artifact.exists
    /\ Loadable(artifact.content)
    /\ existing_data' = Load(artifact.content)
    /\ processed_files' = ProcessedFiles(Load(artifact.content))
    /\ pc' = "loop"

\* Line 27 or 28 raises on a file that is not a complete list of entries;
\* nothing catches it and the script ends.
TranscriptsLoadRaises ==
    /\ StartScript
    /\ artifact.exists
    /\ ~Loadable(artifact.content)
    /\ existing_data' = <<>>
    /\ processed_files' = {}
    /\ pc' = "aborted"

InScript == pc = "loop" /\ idx <= Len(RemainingFiles)

\* Variant: only the entries of this run are written.
TranscribeAndSaveNewOnly ==
    /\ InScript
    /\ RemainingFiles[idx] \notin failing
    /\ attempted' = Append(attempted, RemainingFiles[idx])
    /\ new_entries' = Append(new_entries, TranscriptEntry(RemainingFiles[idx]))
    /\ combined_data' = new_entries'
    /\ artifact' = FileWith(<<>>)
    /\ pc' = "write"
    /\ UNCHANGED <<entry, directory, failing, existing_data, processed_files, idx,
                   log, runs, startArtifact, prevOutcome, prevUnfinished>>
    /\ UNCHANGED besidesBatch

\* Lines 44-51: the file is transcribed, its entry is appended to
\* transcripts and the transcripts file is opened for writing, which cuts
\* it to length zero.
TranscribeAndAppend ==
    /\ InScript
    /\ RemainingFiles[idx] \notin failing
    /\ attempted' = Append(attempted, RemainingFiles[idx])
    /\ new_entries' = Append(new_entries, TranscriptEntry(RemainingFiles[idx]))
    /\ combined_data' = existing_data \o new_entries'
    /\ artifact' = FileWith(<<>>)
    /\ pc' = "write"
    /\ UNCHANGED <<entry, directory, failing, existing_data, processed_files, idx,
                   log, runs, startArtifact, prevOutcome, prevUnfinished>>
    /\ UNCHANGED besidesBatch

\* Line 45: transcribe_wav raises; nothing catches it and the script ends
\* with the transcripts file as the last save left it.
TranscribeRaises ==
    /\ InScript
    /\ RemainingFiles[idx] \in failing
    /\ attempted' = Append(attempted, RemainingFiles[idx])
    /\ pc' = "stopped"
    /\ UNCHANGED <<entry, directory, failing, artifact, existing_data,
                   processed_files, new_entries, combined_data, idx, log, runs,
                   startArtifact, prevOutcome, prevUnfinished>>
    /\ UNCHANGED besidesBatch

\* Line 52: json.dump hands the next piece to the file; after the last one
\* the file is closed, line 53 logs the update and the loop goes on.
SaveChunk ==
    /\ pc = "write"
    /\ Len(artifact.content) < Len(Dump(combined_data))
    /\ artifact' = FileWith(Append(artifact.content,
                                   Dump(combined_data)[Len(artifact.content) + 1]))
    /\ IF artifact'.content = Dump(combined_data)
       THEN /\ pc' = "loop"
            /\ idx' = idx + 1
            /\ log' = log \cup {<<"updated", RemainingFiles[idx]>>}
       ELSE UNCHANGED <<pc, idx, log>>
    /\ UNCHANGED <<entry, directory, failing, existing_data, processed_files,
                   new_entries, combined_data, attempted, runs, startArtifact,
                   prevOutcome, prevUnfinished>>
    /\ UNCHANGED besidesBatch

\* The write raises or the process is killed while the file is open: the
\* script ends and the file keeps what reached it.
SaveFails ==
    /\ pc = "write"
    /\ pc' = "aborted"
    /\ UNCHANGED <<entry, directory, failing, artifact, existing_data,
                   processed_files, new_entries, combined_data, idx, attempted, log,
                   runs, startArtifact, prevOutcome, prevUnfinished>>
    /\ UNCHANGED besidesBatch

\* Line 55: the loop is through.
AllProcessed ==
    /\ pc = "loop"
    /\ idx > Len(RemainingFiles)
    /\ pc' = "done"
    /\ log' = log \cup {<<"all processed", "">>}
    /\ UNCHANGED <<entry, directory, failing, artifact, existing_data,
                   processed_files, new_entries, combined_data, idx, attempted, runs,
                   startArtifact, prevOutcome, prevUnfinished>>
    /\ UNCHANGED besidesBatch

NextIncremental ==
    \/ TranscriptsAbsent
    \/ TranscriptsLoaded
    \/ TranscriptsLoadRaises
    \/ TranscribeAndAppend
    \/ TranscribeRaises
    \/ SaveChunk
    \/ SaveFails
    \/ AllProcessed

SpecIncremental == InitIncremental /\ [][NextIncremental]_vars

(***************************************************************************)
(* Properties of the batch run.                                            *)
(***************************************************************************)

\* The entries a file on disk holds, complete list or not.
StoredEntries(file) ==
    SelectSeq(file.content, LAMBDA x : x \notin {ListOpen, ListClose})

\* The "file" keys among them.
StoredFiles(file) ==
    {e.file : e \in {x \in Range(StoredEntries(file)) : "file" \in DOMAIN x}}

\* One new record for each file of the directory that is in `recorded` not
\* yet and whose pipeline succeeds, in directory order.
RECURSIVE NewRecordsFrom(_, _)
NewRecordsFrom(i, recorded) ==
    IF i > Len(directory) THEN <<>>
    ELSE IF directory[i] \in recorded \/ directory[i] \in failing
         THEN NewRecordsFrom(i + 1, recorded)
         ELSE <<Result(directory[i])>> \o NewRecordsFrom(i + 1, recorded)

\* C5: a run that follows a completed run on the same directory and on the
\* artifact as that run left it produces no new entry and leaves the
\* artifact as it found it.
C5_SecondRunIsNoOp ==
    (entry = "process_all_files" /\ pc = "done"
        /\ prevOutcome \in {"saved", "no new files"}) =>
        /\ new_entries = <<>>
        /\ artifact = startArtifact

\* The second run ends after a first run that saved records; it skipped a
\* recorded file and tried a failing one again.
C5_Witness ==
    /\ entry = "process_all_files"
    /\ pc = "done"
    /\ prevOutcome = "saved"
    /\ runs = 2
    /\ \E f \in Range(directory) : <<"skipping", f>> \in log
    /\ \E f \in Range(directory) : <<"error processing", f>> \in log

\* C6: after a run of process_all_files that produced a new record, the
\* artifact holds the
\* entries it held before, unchanged and in order, followed by one record
\* for each file that was not recorded and was processed successfully, in
\* directory order.
C6_AppendsToPrevious ==
    (entry = "process_all_files" /\ pc = "done" /\ new_entries # <<>>) =>
        artifact =
            FileWith(Dump(StoredEntries(startArtifact)
                            \o NewRecordsFrom(1, StoredFiles(startArtifact))))

\* C6 for the runs whose load succeeded or found no file.
C6_AppendsWhenLoaded ==
    (entry = "process_all_files" /\ pc = "done" /\ new_entries # <<>>
        /\ (startArtifact.exists => Loadable(startArtifact.content))) =>
        artifact =
            FileWith(Dump(StoredEntries(startArtifact)
                            \o NewRecordsFrom(1, StoredFiles(startArtifact))))

C8_BadFileDoesNotAbort ==
    /\ \A f \in Raised : <<"error processing", f>> \in log
    /\ pc \in {"write", "done", "aborted"} =>
          \A f \in Range(directory) : f \notin processed_files => f \in Range(attempted)
    /\ pc = "done" =>
          \A f \in Range(directory) :
              (f \notin processed_files /\ f \notin failing) =>
                  /\ IsJson(artifact.content)
                  /\ Result(f) \in Range(Load(artifact.content))

\* In process_all_files the first file of the directory failed, the second
\* was processed after it and its record is in the artifact.
C8_Witness ==
    /\ entry = "process_all_files"
    /\ pc = "done"
    /\ Len(directory) = 2
    /\ attempted = directory
    /\ directory[1] \in failing
    /\ directory[2] \notin failing
    /\ IsJson(artifact.content)
    /\ Result(directory[2]) \in Range(Load(artifact.content))

\* C9: at every point of a run of process_all_files the artifact is the
\* complete collection the run found or the complete collection with the
\* new records appended.
C9_AtomicPersist ==
    \/ entry # "process_all_files"
    \/ artifact = startArtifact
    \/ artifact = FileWith(Dump(StoredEntries(startArtifact) \o new_entries))

\* C10: a run of process_all_files that finds an artifact it cannot load
\* ends as a failure, without processing a file and without touching the
\* artifact.
C10_UnreadableArtifactEndsRun ==
    (entry = "process_all_files" /\ startArtifact.exists
        /\ ~Loadable(startArtifact.content)) =>
        /\ pc = "aborted"
        /\ attempted = <<>>
        /\ artifact = startArtifact

\* The keys a load of the file yields: what the next run will skip.
LoadedKeys(file) ==
    IF file.exists /\ Loadable(file.content)
    THEN {e.file : e \in Range(Load(file.content))}
    ELSE {}

\* The entries the file holds for one name.
EntriesFor(file, name) ==
    {e \in Range(StoredEntries(file)) : "file" \in DOMAIN e /\ e.file = name}

\* C11: a file whose pipeline failed or was interrupted in a run of
\* process_all_files contributes no record: when the run has ended the
\* artifact holds no entry for it that was not there before and a load
\* yields no key for it; and the next run of process_all_files, once
\* through its loop, has attempted it again.
C11_FailedFileStaysUnprocessed ==
    entry = "process_all_files" =>
        /\ pc \in {"done", "aborted", "interrupted"} =>
               \A f \in Unfinished :
                   /\ f \notin LoadedKeys(artifact)
                   /\ EntriesFor(artifact, f) \subseteq EntriesFor(startArtifact, f)
                   /\ \A i \in 1..Len(new_entries) : new_entries[i].file # f
        /\ pc \in {"write", "done", "aborted"} =>
               \A f \in prevUnfinished : \E i \in 1..Len(attempted) : attempted[i] = f

\* A second run has recorded a file the first was interrupted in, next to a
\* file that failed in both.
C11_Witness ==
    /\ entry = "process_all_files"
    /\ runs = 2
    /\ pc = "done"
    /\ \E f \in prevUnfinished : f \in StoredFiles(artifact)
    /\ \E f \in prevUnfinished : f \in Unfinished /\ f \notin StoredFiles(artifact)

\* C12: a run of process_all_files that has no new record never opens the
\* artifact for writing: the artifact is what it was when the run started
\* and no save is logged.
C12_NothingNewNothingWritten ==
    (entry = "process_all_files" /\ new_entries = <<>>) =>
        /\ artifact = startArtifact
        /\ pc # "write"
        /\ <<"saved", "">> \notin log

\* A run has ended in which every file it attempted failed; the artifact it
\* found is untouched.
C12_Witness ==
    /\ entry = "process_all_files"
    /\ pc = "done"
    /\ attempted # <<>>
    /\ new_entries = <<>>
    /\ startArtifact.exists
    /\ artifact = startArtifact
    /\ <<"no new files", "">> \in log

\* C21: the collection found by the first run has pairwise distinct "file"
\* keys and the directory lists each name once; then whatever runs have
\* taken place, the entries of the artifact have pairwise distinct "file"
\* keys.
C21_FileKeysStayDistinct ==
    \A i, j \in 1..Len(StoredEntries(artifact)) :
        i # j => StoredEntries(artifact)[i].file # StoredEntries(artifact)[j].file

\* The second run of process_all_files has ended: it found a record, skipped
\* that file, and saved a new record after the one it found.
C21_Witness ==
    /\ entry = "process_all_files"
    /\ runs = 2
    /\ pc = "done"
    /\ existing_data # <<>>
    /\ new_entries # <<>>
    /\ \E f \in Range(directory) : <<"skipping", f>> \in log
    /\ artifact = FileWith(Dump(existing_data \o new_entries))

\* A file has been recorded by the current run: one of the new records is
\* its record.  A file has failed in it: its error is in the log.
RecordedNow(f) == \E i \in 1..Len(new_entries) : new_entries[i].file = f
FailedNow(f) == <<"error processing", f>> \in log

\* How many steps the current run can still take, at most: the files the
\* loop has not reached and the pieces of the write.
StepsLeft ==
    IF pc = "loop"
    THEN (Len(directory) + 1 - idx) + Len(existing_data) + Len(directory) + 3
    ELSE IF pc = "write" THEN Len(Dump(combined_data)) - Len(artifact.content)
    ELSE 0

\* The states of a run of process_all_files: no file is attempted twice, no
\* file that was recorded at load time is attempted, an attempted file is
\* recorded or failed and not both, and once the loop is through every file
\* that was not recorded at load time has been attempted; a run that has
\* not ended can take a step.
RunStateOk ==
    entry = "process_all_files" =>
        /\ NoDuplicates(attempted)
        /\ \A f \in Range(attempted) : f \notin processed_files
        /\ \A f \in Range(attempted) \ Interrupted : RecordedNow(f) # FailedNow(f)
        /\ \A f \in Range(directory) \ Range(attempted) :
               ~RecordedNow(f) /\ ~FailedNow(f)
        /\ pc \in {"write", "done", "aborted"} =>
               Range(attempted) = Range(directory) \ processed_files
        /\ StepsLeft >= 0
        /\ pc \in {"loop", "write"} => StepsLeft > 0 /\ ENABLED Next

\* The steps of a run of process_all_files: each lowers the number of steps
\* left, an attempt is of the file the loop is at, and a file that is
\* recorded or failed stays so.
RunStepOk ==
    (entry' = "process_all_files" /\ runs' = runs) =>
        /\ StepsLeft' < StepsLeft
        /\ attempted' # attempted => attempted' = Append(attempted, directory[idx])
        /\ \A f \in Range(directory) :
               /\ RecordedNow(f) => RecordedNow(f)'
               /\ FailedNow(f) => FailedNow(f)'

\* C22: every run of process_all_files ends, after a number of steps the
\* directory and the collection bound; it attempts each file that was not
\* recorded at load time exactly once and each such file ends recorded or
\* failed, never both; no file leaves either state within the run, and a
\* file recorded at load time is never attempted.
C22_RunTerminatesEachFileOnce == []RunStateOk /\ [][RunStepOk]_vars

\* A run over two files has ended: the first failed and the second was
\* recorded, each attempted once, and no step is left.
C22_Witness ==
    /\ entry = "process_all_files"
    /\ pc = "done"
    /\ StepsLeft = 0
    /\ Len(directory) = 2
    /\ processed_files = {}
    /\ attempted = directory
    /\ FailedNow(directory[1]) /\ ~RecordedNow(directory[1])
    /\ RecordedNow(directory[2]) /\ ~FailedNow(directory[2])

(***************************************************************************)
(* Properties of Segment Fusion.                                           *)
(***************************************************************************)

\* Overlap duration of two time spans as the glossary defines it, before
\* the cut at zero.
SpanOverlap(a, b) ==
    (IF a.end < b.end THEN a.end ELSE b.end)
        - (IF a.start > b.start THEN a.start ELSE b.start)

\* The largest overlap any diarisation segment has with t (0 when none has).
MaxOverlapOf(t) ==
    LET S == {SpanOverlap(t, diarisation_segments[j]) :
                 j \in 1..Len(diarisation_segments)} \cup {0}
    IN CHOOSE m \in S : \A x \in S : x <= m

\* Positions of the diarisation segments whose overlap with t is the largest.
MaxPositions(t) ==
    {j \in 1..Len(diarisation_segments) :
        SpanOverlap(t, diarisation_segments[j]) = MaxOverlapOf(t)}

\* C1: the fused sequence has the length of the transcript and its i-th
\* element has the start, end and text of the i-th transcript segment:
\* nothing is added, dropped, reordered, merged or split.
C1_FusionKeepsSegments ==
    fpc = "fused" =>
        /\ Len(enriched_segments) = Len(transcript_input)
        /\ \A i \in 1..Len(transcript_input) :
              /\ enriched_segments[i].start = transcript_input[i].start
              /\ enriched_segments[i].end = transcript_input[i].end
              /\ enriched_segments[i].text = transcript_input[i].text

\* Two transcript segments with different texts, one left unlabelled and one
\* labelled, against two diarisation segments that overlap each other.
C1_Witness ==
    /\ fpc = "fused"
    /\ Len(transcript_input) = 2
    /\ transcript_input[1].text # transcript_input[2].text
    /\ Len(diarisation_segments) = 2
    /\ SpanOverlap(diarisation_segments[1], diarisation_segments[2]) > 0
    /\ enriched_segments[1].speaker = Unknown
    /\ enriched_segments[2].speaker # Unknown

\* C2: when several diarisation segments share the largest, strictly
\* positive overlap with a transcript segment, the speaker is that of the
\* one standing earliest in the diarisation sequence.
C2_TieEarliestWins ==
    fpc = "fused" =>
        \A i \in 1..Len(transcript_input) :
            LET t == transcript_input[i]
                P == MaxPositions(t)
            IN (MaxOverlapOf(t) > 0 /\ Cardinality(P) >= 2) =>
                   LET first == CHOOSE j \in P : \A k \in P : j <= k
                   IN enriched_segments[i].speaker =
                          diarisation_segments[first].speaker

\* The spec's scenario: transcript [0,2], diarisation [0,1] Agent then
\* [1,2] Customer, labelled Agent.
C2_Witness ==
    /\ fpc = "fused"
    /\ Len(transcript_input) = 1
    /\ transcript_input[1].start = 0 /\ transcript_input[1].end = 2
    /\ diarisation_segments =
          << [start |-> 0, end |-> 1, speaker |-> "Agent"],
             [start |-> 1, end |-> 2, speaker |-> "Customer"] >>
    /\ enriched_segments[1].speaker = "Agent"

\* C3: a transcript segment that some diarisation segment overlaps by a
\* strictly positive duration gets the label of a diarisation segment whose
\* overlap is the largest of the whole sequence, wherever it stands.
C3_MaxOverlapWins ==
    fpc = "fused" =>
        \A i \in 1..Len(transcript_input) :
            LET t == transcript_input[i]
            IN MaxOverlapOf(t) > 0 =>
                   \E j \in MaxPositions(t) :
                       enriched_segments[i].speaker = diarisation_segments[j].speaker

\* The larger overlap stands second and belongs to another speaker.
C3_Witness ==
    /\ fpc = "fused"
    /\ Len(transcript_input) >= 1
    /\ Len(diarisation_segments) = 2
    /\ SpanOverlap(transcript_input[1], diarisation_segments[1]) > 0
    /\ SpanOverlap(transcript_input[1], diarisation_segments[2])
          > SpanOverlap(transcript_input[1], diarisation_segments[1])
    /\ diarisation_segments[1].speaker # diarisation_segments[2].speaker
    /\ enriched_segments[1].speaker = diarisation_segments[2].speaker

\* C4: with no diarisation model the diarisation sequence is empty, and a
\* transcript segment that no diarisation segment overlaps by a strictly
\* positive duration (empty sequence, touching boundaries, zero-length
\* segment) is labelled "Unknown".
C4_UnknownWithoutOverlap ==
    /\ (fpc \in {"fuse", "fused"} /\ diarization_model = "None") =>
           diarisation_segments = <<>>
    /\ fpc = "fused" =>
           \A i \in 1..Len(transcript_input) :
               MaxOverlapOf(transcript_input[i]) = 0 =>
                   enriched_segments[i].speaker = Unknown

\* A zero-length transcript segment strictly inside a diarisation segment
\* and left "Unknown", next to a transcript segment that is labelled.
C4_Witness ==
    /\ fpc = "fused"
    /\ diarization_model = "loaded"
    /\ \E i \in 1..Len(transcript_input), j \in 1..Len(diarisation_segments) :
          /\ transcript_input[i].start = transcript_input[i].end
          /\ diarisation_segments[j].start < transcript_input[i].start
          /\ transcript_input[i].end < diarisation_segments[j].end
          /\ enriched_segments[i].speaker = Unknown
    /\ \E i \in 1..Len(transcript_input) : enriched_segments[i].speaker # Unknown

\* C16: assign_speaker_labels leaves the transcript segments it is given
\* unchanged: after the call the caller's segments are the ones the
\* transcription produced, without a speaker.
C16_InputSegmentsUnchanged ==
    fpc = "fused" => transcription_segments = transcript_input

(***************************************************************************)
(* Properties of the transcript cleaner.                                   *)
(***************************************************************************)

\* The positions of the line breaks of a text, and the n-th of them.
Breaks(text) == {i \in 1..Len(text) : text[i] = NL}
NthBreak(text, n) ==
    CHOOSE i \in Breaks(text) : Cardinality({j \in Breaks(text) : j <= i}) = n

\* The number of lines of a text: one for each line break, and one more for
\* what follows the last break, if anything does.
LineCount(text) ==
    Cardinality(Breaks(text))
        + (IF text # <<>> /\ text[Len(text)] # NL THEN 1 ELSE 0)

\* The n-th line of a text, without its line break.
TextLine(text, n) ==
    LET from == IF n = 1 THEN 1 ELSE NthBreak(text, n - 1) + 1
        to   == IF n <= Cardinality(Breaks(text)) THEN NthBreak(text, n) - 1
                ELSE Len(text)
    IN SubSeq(text, from, to)

\* A line without the whitespace before its first and after its last word.
Trimmed(line) ==
    LET words == {i \in 1..Len(line) : line[i] \notin Whitespace}
    IN IF words = {} THEN <<>>
       ELSE SubSeq(line, CHOOSE i \in words : \A j \in words : i <= j,
                         CHOOSE i \in words : \A j \in words : j <= i)

\* The phrase is an exact prefix of the line.
HasPrefix(line, phrase) ==
    \/ phrase = <<>>
    \/ /\ Len(line) >= Len(phrase)
       /\ SubSeq(line, 1, Len(phrase) - 1) = SubSeq(phrase, 1, Len(phrase) - 1)
       /\ WordStartsWith(line[Len(phrase)], phrase[Len(phrase)])

\* The numbers of the lines no phrase of the list is a prefix of.
KeptLines(text, list) ==
    {n \in 1..LineCount(text) :
        \A p \in 1..Len(list) : ~HasPrefix(Trimmed(TextLine(text, n)), list[p])}

\* The trimmed kept lines up to line n, in order, a single space between
\* one and the next.
RECURSIVE JoinedUpTo(_, _, _)
JoinedUpTo(text, list, n) ==
    IF n = 0 THEN <<>>
    ELSE IF n \notin KeptLines(text, list) THEN JoinedUpTo(text, list, n - 1)
    ELSE IF \E m \in KeptLines(text, list) : m < n
         THEN JoinedUpTo(text, list, n - 1) \o <<SP>> \o Trimmed(TextLine(text, n))
         ELSE Trimmed(TextLine(text, n))

ExpectedCleaning(text, list) == JoinedUpTo(text, list, LineCount(text))

\* C13: clean_transcript is idempotent: applied to its own result it
\* returns that result.
C13_CleanIdempotent ==
    Len(cleanings) >= 3 => cleanings[3] = cleanings[2]

\* C14: clean_transcript(text) is the single-space join, in order, of the
\* trimmed lines of text that no denylist phrase is an exact prefix of; the
\* greeting line of the example is dropped and a line with a phrase in its
\* middle is kept.
C14_CleanKeepsUnmatchedLines ==
    Len(cleanings) >= 2 =>
        /\ cleanings[2] = ExpectedCleaning(cleanings[1], unwanted_phrases)
        /\ (cleanings[1] = GreetingThenRequest
               /\ unwanted_phrases = DefaultUnwantedPhrases) =>
               cleanings[2] = <<"I", SP, "need", SP, "help", SP, "with", SP, "my",
                                SP, "order">>
        /\ (cleanings[1] = PhraseMidLine
               /\ unwanted_phrases = DefaultUnwantedPhrases) =>
               cleanings[2] = PhraseMidLine

\* The greeting example has been cleaned with the default list: of its
\* two lines the second is left.
C14_Witness ==
    /\ Len(cleanings) >= 2
    /\ unwanted_phrases = DefaultUnwantedPhrases
    /\ cleanings[1] = GreetingThenRequest
    /\ LineCount(cleanings[1]) = 2
    /\ KeptLines(cleanings[1], unwanted_phrases) = {2}
    /\ cleanings[2] = TextLine(cleanings[1], 2)

\* C15: a processor constructed with a list, the empty list included,
\* filters with exactly that list; one constructed without a list filters
\* with the default list.
C15_DenylistOverridable ==
    /\ (cleaner = "class" /\ unwanted_arg.given) =>
           /\ unwanted_phrases = unwanted_arg.list
           /\ Len(cleanings) >= 2 =>
                  cleanings[2] = ExpectedCleaning(cleanings[1], unwanted_arg.list)
    /\ (cleaner = "class" /\ ~unwanted_arg.given) =>
           unwanted_phrases = DefaultUnwantedPhrases

(***************************************************************************)
(* Properties of the entity extractor.                                     *)
(***************************************************************************)

\* The texts of the spans doc.ents holds under one of the labels.
SpansLabelled(labels) ==
    {doc_ents[i].text : i \in {j \in 1..Len(doc_ents) : doc_ents[j].label_ \in labels}}

\* C17: each of the four lists extract_entities returns holds no string
\* twice and holds every string that was collected for its category, those
\* that differ in case or in surrounding whitespace each as an entry.
C17_EntityListsAreSets ==
    epc = "extracted" =>
        \A k \in {"emails", "phone_numbers", "names", "products"} :
            /\ NoDuplicates(entities[k])
            /\ Range(entities[k]) = Range(collected[k])

\* The same email address was matched twice and is returned once; two
\* names that differ in case only are both returned.
C17_Witness ==
    /\ epc = "extracted"
    /\ collected.emails = <<"jo@acme.com", "jo@acme.com">>
    /\ entities.emails = <<"jo@acme.com">>
    /\ Len(entities.names) = 2
    /\ Range(entities.names) = {"Acme", "acme"}

\* C18: names holds the texts of the spans labelled PERSON or ORG and
\* nothing else, products those of the spans labelled PRODUCT and nothing
\* else; a span under another label is in neither; emails and
\* phone_numbers hold what the two patterns matched and nothing from the
\* spans.
C18_LabelsRouteSpans ==
    epc \in {"collected", "extracted"} =>
        /\ Range(entities.names) = SpansLabelled({"PERSON", "ORG"})
        /\ Range(entities.products) = SpansLabelled({"PRODUCT"})
        /\ Range(entities.emails) = Range(email_matches)
        /\ Range(entities.phone_numbers) = Range(phone_matches)

\* Of two spans, one labelled GPE and one labelled ORG, the second alone
\* was returned, as a name; no pattern matched and emails is empty.
C18_Witness ==
    /\ epc = "extracted"
    /\ Len(doc_ents) = 2
    /\ doc_ents[1].label_ = "GPE"
    /\ doc_ents[2].label_ = "ORG"
    /\ doc_ents[1].text # doc_ents[2].text
    /\ entities.names = <<doc_ents[2].text>>
    /\ entities.products = <<>>
    /\ email_matches = <<>>
    /\ entities.emails = <<>>

(***************************************************************************)
(* Properties of process_wav_file and of its test.                         *)
(***************************************************************************)

\* The positions of the segments whose speaker label has the customer
\* marker in it.
CustomerPositions(segs) ==
    {i \in 1..Len(segs) : segs[i].speaker \in LabelsWithCustomer}

\* The texts of those among the first n segments, in order, a single space
\* between one and the next.
RECURSIVE CustomerTextUpTo(_, _)
CustomerTextUpTo(segs, n) ==
    IF n = 0 THEN <<>>
    ELSE IF n \notin CustomerPositions(segs) THEN CustomerTextUpTo(segs, n - 1)
    ELSE IF \E m \in CustomerPositions(segs) : m < n
         THEN CustomerTextUpTo(segs, n - 1) \o <<SP>> \o segs[n].text
         ELSE segs[n].text

\* C19: the customer_transcript of a record is the single-space join, in
\* segment order, of the texts of exactly the segments of the record whose
\* speaker has the customer marker; it is empty when there is no such
\* segment, and so whenever the diarisation of the file was empty.
C19_CustomerTranscript ==
    \A i \in 1..Len(results) :
        /\ results[i].customer_transcript =
               CustomerTextUpTo(results[i].segments, Len(results[i].segments))
        /\ CustomerPositions(results[i].segments) = {} =>
               results[i].customer_transcript = <<>>
        /\ calls[i].diar = <<>> => results[i].customer_transcript = <<>>

\* A record of two segments, the first the agent's and the second the
\* customer's, both with a text: the customer transcript is the second
\* text alone.
C19_Witness ==
    /\ Len(results) = 1
    /\ Len(results[1].segments) = 2
    /\ results[1].segments[1].speaker = "Agent"
    /\ results[1].segments[1].text # <<>>
    /\ results[1].segments[2].speaker = "Customer"
    /\ results[1].segments[2].text # <<>>
    /\ results[1].customer_transcript = results[1].segments[2].text

\* The keys of a record, of a segment and of the entities of a record.
RecordKeys == {"file", "transcript", "customer_transcript", "segments", "entities"}
SegmentKeys == {"start", "end", "text", "speaker"}
EntityKeys == {"emails", "phone_numbers", "names", "products"}

\* C20: when the test's loop over its N files is through there are N
\* records, the i-th with the name of the i-th file as "file" and with the
\* fields of a record, of its segments and of its entities; the file the
\* test saves is a list of N entries and that is what the test reads back.
C20_OneRecordPerFile ==
    /\ tpc \in {"loop", "saved", "passed"} =>
           /\ Len(results) <= NumTestFiles
           /\ \A i \in 1..Len(results) :
                  /\ results[i].file = wav_files[i].name
                  /\ DOMAIN results[i] = RecordKeys
                  /\ DOMAIN results[i].entities = EntityKeys
                  /\ \A j \in 1..Len(results[i].segments) :
                         DOMAIN results[i].segments[j] = SegmentKeys
    /\ tpc \in {"saved", "passed"} =>
           /\ Len(results) = NumTestFiles
           /\ \A i, j \in 1..Len(results) : i # j => results[i].file # results[j].file
           /\ test_file.exists
           /\ IsJson(test_file.content)
           /\ Len(Load(test_file.content)) = NumTestFiles
    /\ tpc = "passed" => test_data = results

\* The test has passed on a directory with more files than it takes; its
\* records are those of the first files by name and one of them has a
\* segment.
C20_Witness ==
    /\ tpc = "passed"
    /\ Cardinality(wav_dir) > NumTestFiles
    /\ Len(test_data) = NumTestFiles
    /\ \A i \in 1..NumTestFiles : test_data[i].file \in wav_dir
    /\ \E i \in 1..NumTestFiles : test_data[i].segments # <<>>

\* The texts of the first n segments with a single space between one and
\* the next.
RECURSIVE SegmentTextUpTo(_, _)
SegmentTextUpTo(segs, n) ==
    IF n = 0 THEN <<>>
    ELSE IF n = 1 THEN segs[1].text
    ELSE SegmentTextUpTo(segs, n - 1) \o <<SP>> \o segs[n].text

\* The joined text of a record's segments, trimmed.
WholeText(r) == Trimmed(SegmentTextUpTo(r.segments, Len(r.segments)))

\* A phrase of the processor's denylist is a prefix of the text.
StartsDenied(text) ==
    \E p \in 1..Len(unwanted_phrases) : HasPrefix(text, unwanted_phrases[p])

\* No segment of the record has a line break in its text.
NoLineBreaks(r) ==
    \A i \in 1..Len(r.segments) :
        \A k \in 1..Len(r.segments[i].text) : r.segments[i].text[k] # NL

\* The transcript of the record is its whole text, or empty when that text
\* starts with a denylist phrase.
WholeOrNothing(r) ==
    r.transcript = IF StartsDenied(WholeText(r)) THEN <<>> ELSE WholeText(r)

\* A denylist phrase at the start of the first segment empties the
\* transcript.
FirstSegmentDecides(r) ==
    (r.segments # <<>> /\ StartsDenied(r.segments[1].text)) => r.transcript = <<>>

\* C23 as stated: for a record whose segment texts have no line break the
\* transcript is the whole trimmed joined text, or empty exactly when that
\* text starts with a denylist phrase; a phrase at the start of the first
\* segment empties it, and a phrase at the start of a later segment never
\* does: unless the first segment starts with one, the later segment's text
\* is in the transcript.
C23_LaterBoilerplateNeverRemoved ==
    \A i \in 1..Len(results) :
        NoLineBreaks(results[i]) =>
            /\ WholeOrNothing(results[i])
            /\ FirstSegmentDecides(results[i])
            /\ \A j \in 2..Len(results[i].segments) :
                   (/\ StartsDenied(results[i].segments[j].text)
                    /\ ~StartsDenied(results[i].segments[1].text)) =>
                       results[i].transcript = WholeText(results[i])

\* C23, amended: for a record whose segment texts have no line break the
\* transcript is the whole trimmed joined text, or empty exactly when that
\* text starts with a denylist phrase; a phrase at the start of the first
\* segment empties it, and a phrase at the start of a later segment is kept
\* with the rest whenever the trimmed joined text does not start with one.
C23_JoinedTextCleanedAsOneLine ==
    \A i \in 1..Len(results) :
        NoLineBreaks(results[i]) =>
            /\ WholeOrNothing(results[i])
            /\ FirstSegmentDecides(results[i])
            /\ \A j \in 2..Len(results[i].segments) :
                   (/\ StartsDenied(results[i].segments[j].text)
                    /\ ~StartsDenied(WholeText(results[i]))) =>
                       results[i].transcript = WholeText(results[i])

\* A record of two segments made with the default list: the second starts
\* with a denylist phrase, the first does not, and the transcript is both
\* texts.
C23_Witness ==
    /\ Len(results) = 1
    /\ unwanted_phrases = DefaultUnwantedPhrases
    /\ Len(results[1].segments) = 2
    /\ results[1].segments[1].text = <<"hello">>
    /\ StartsDenied(results[1].segments[2].text)
    /\ NoLineBreaks(results[1])
    /\ results[1].transcript = <<"hello", SP, "Please", SP, "press">>

(***************************************************************************)
(* Properties of the per-file variant.                                     *)
(***************************************************************************)

\* The files of the directory the transcripts file did not list when the
\* run started, in directory order.
RemainingAtStart ==
    SelectSeq(directory, LAMBDA f : f \notin StoredFiles(startArtifact))

\* The number of files of this run whose save is complete.
SavedCount == IF pc = "write" THEN idx - 1 ELSE Len(new_entries)

\* The entries of the first k remaining files, in order.
SavedRecords(k) == [i \in 1..k |-> [file |-> RemainingAtStart[i], text |-> "current"]]

\* The run is between two files, through, or stopped by a transcription
\* that raised.
BetweenFiles == entry = "data_processing" /\ pc \in {"loop", "done", "stopped"}

SavedStateOk ==
    BetweenFiles =>
        /\ SavedCount <= Len(RemainingAtStart)
        /\ StoredEntries(artifact) = StoredEntries(startArtifact) \o SavedRecords(SavedCount)
        /\ SavedCount >= 1 => artifact.exists /\ IsJson(artifact.content)
        /\ SavedCount = 0 => artifact = startArtifact
        /\ Range(attempted) \cap StoredFiles(startArtifact) = {}
        /\ \A i \in 1..Len(attempted) : attempted[i] = RemainingAtStart[i]
        /\ pc = "done" => attempted = RemainingAtStart /\ SavedCount = Len(attempted)
        /\ pc = "stopped" =>
              /\ Len(attempted) = SavedCount + 1
              /\ attempted[Len(attempted)] \in failing

SavedStepOk ==
    /\ (BetweenFiles /\ entry' = "data_processing" /\ runs' = runs /\ pc' = "loop") =>
          /\ pc = "loop"
          /\ artifact' = artifact
    /\ (BetweenFiles /\ pc = "loop" /\ pc' = "write") =>
          /\ idx <= Len(RemainingAtStart)
          /\ combined_data' = StoredEntries(startArtifact) \o SavedRecords(idx)
    /\ (entry = "data_processing" /\ pc = "write" /\ pc' = "loop") =>
          /\ SavedCount' = SavedCount + 1
          /\ artifact' = FileWith(Dump(combined_data))
    /\ pc = "stopped" =>
          /\ runs' = runs + 1
          /\ artifact' = artifact
          /\ processed_files' = StoredFiles(artifact)
          /\ \A f \in Range(directory) :
                IsProcessed(f, processed_files') <=>
                    \/ f \in StoredFiles(startArtifact)
                    \/ \E i \in 1..SavedCount : RemainingAtStart[i] = f

\* C24: in the main block of data_processing.py, once the k-th remaining
\* file has been saved the transcripts file holds the entries it held at
\* the start, unchanged and in order, followed by the records of remaining
\* files 1..k in order; when the transcription of a file raises the run
\* stops there with the saved records still in the file, and the next run
\* skips exactly the files the file lists.
C24_SavedAfterEveryFile == []SavedStateOk /\ [][SavedStepOk]_vars

\* A second run that follows a run stopped by a failing transcription: the
\* stopped run had saved one record after an earlier entry, and the second
\* run skips both and stops at the failing file again.
C24_Witness ==
    /\ entry = "data_processing"
    /\ runs = 2
    /\ prevOutcome = "transcription failed"
    /\ pc = "stopped"
    /\ Len(StoredEntries(startArtifact)) = 2
    /\ StoredEntries(startArtifact)[1].text = "earlier"
    /\ StoredEntries(startArtifact)[2].text = "current"
    /\ artifact = startArtifact
    /\ Len(attempted) = 1
    /\ attempted[1] \notin StoredFiles(startArtifact)

====
